---------------------------- MODULE Spec2Model ----------------------------
(***************************************************************************)
(* Model of harness/testcases/WINNF_FT_S_PCR_testcase.py: the PCR.1 test   *)
(* (maximum PPA creation) of the SAS test harness.                         *)
(*                                                                         *)
(*   - assertRegConditionalsForPpaRefModel ("reconcile") is the operator   *)
(*     Reconcile, computed loop by loop as the code computes it;           *)
(*   - triggerPpaCreationAndWaitUntilComplete ("the poller") is the group  *)
(*     of actions TriggerPpaCreation .. ReturnPpaId, with the SIGALRM      *)
(*     timer as the variable alarm and the wall clock as now;              *)
(*   - triggerFadAndRetrievePpaZone is the action TriggerFad;              *)
(*   - test_WINNF_FT_S_PCR_1 is the sequence of actions driven by pc.      *)
(*                                                                         *)
(* Python dictionaries are functions whose domain is the set of keys that  *)
(* are present; "k in d" is k \in DOMAIN d.                                *)
(***************************************************************************)
EXTENDS Integers, Sequences, FiniteSets, TLC

VARIABLES
  pc,          \* position of the test method (or of the reconcile driver)
  config,      \* the loaded configuration: registrationRequests, conditionalRegistrationData
  uutStatus,   \* the UUT's PPA creation status: [completed, withError]
  ppa_id,      \* what TriggerPpaCreation returned: NotYet, None or an identifier
  now,         \* wall clock, in seconds since the test started
  alarm,       \* the process's SIGALRM timer: [armed, at]
  queries,     \* number of GetPpaCreationStatus calls answered so far
  loopStatus,  \* the response that ended the while loop (NoStatus before)
  checkStatus, \* the response read by the withError check (NoStatus before)
  pollerReturn,\* the value returned by the poller (NotYet before)
  zones,       \* zone records of the full activity dump (<<>> before)
  zoneData,    \* the record returned by triggerFadAndRetrievePpaZone
  called,      \* collaborators and helpers invoked so far (history)
  outcome,     \* "running", "passed", or the exception that ended the test
  failedAt,    \* the step in which the exception was raised ("none" otherwise)
  strayAlarm,  \* TRUE once SIGALRM was delivered outside the poller call
  reconciled,  \* result of the reconcile call(s): [devs, err, ...] (NoResult before)
  calls,       \* number of reconcile calls made by the reconcile driver
  shared,      \* pairs <<i, j>>: device i's installationParam is the very object of conditional j
  geo,         \* regions: census tracts of the PAL records, UUT PPA, reference PPA
  checks,      \* results of the two geometry checks (NotYet before)
  runs         \* two scenario runs polling in one process (concurrent runs only)

vars == <<pc, config, uutStatus, ppa_id, now, alarm, queries, loopStatus,
          checkStatus, pollerReturn, zones, zoneData, called, outcome,
          failedAt, strayAlarm, reconciled, calls, shared, geo, checks, runs>>

-----------------------------------------------------------------------------
(* Bounds of the model.                                                    *)

\* longest registrationRequests list the reconcile driver enumerates
MaxDevices == 2
\* longest conditionalRegistrationData list the reconcile driver enumerates
MaxConditionals == 2
\* longest zone-record list the activity dump may hold
MaxZones == 3
\* calls of reconcile the reconcile driver makes on the same lists
MaxCalls == 2
\* number of cells of the strip of land the regions lie on
LineLen == 12
\* most PAL records of a configuration
MaxPalRecords == 2
\* latest start of the second of two concurrent runs, in sleeps of the first
MaxStartDelay == 3

(* Program constants.                                                      *)

\* signal.alarm(7200)
DEADLINE == 7200
\* time.sleep(10)
SLEEP == 10
\* assertEquals(len(uut_ppa_zone_data), 2, ...)
EXPECTED_ZONE_COUNT == 2
\* buffer(-1e-6): the buffer distance, one cell of the strip
BUFFER == 1
\* "no more than 10% of the area of the ... Reference Model": the default
\* tolerance of PolygonsAlmostEqual, in percent
TOLERANCE_PERCENT == 10

CONDITIONAL_PARAMS_REQUIRED ==
  {"antennaAzimuth", "longitude", "latitude", "height",
   "antennaGain", "indoorDeployment", "antennaBeamwidth"}

NotYet == "NotYet"
None == "None"
NoStatus == [completed |-> FALSE, withError |-> FALSE, none |-> TRUE]
NoResult == [err |-> "notcalled"]
NoZone == [id |-> "nozone"]
NoRegion == {-1}
NoChecks == [within |-> NotYet, almostEqual |-> NotYet]
NoRuns == <<>>

-----------------------------------------------------------------------------
(* Dictionaries.                                                           *)

\* d.update({k: v})
Update(d, k, v) == (k :> v) @@ d

\* del d[k]
Del(d, k) == [f \in DOMAIN d \ {k} |-> d[f]]

-----------------------------------------------------------------------------
(* Test data: the devices and conditionals of generate_PCR_1_default_config *)
(* and variants of them.                                                    *)

\* an installationParam object with every required field and eirpCapability
InstallationParam(v) ==
  [antennaAzimuth |-> v, longitude |-> v, latitude |-> v, height |-> v,
   antennaGain |-> 16, indoorDeployment |-> v, antennaBeamwidth |-> v,
   eirpCapability |-> 30 + v]

\* device_a: Category A, installationParam inline
device_a ==
  [fccId |-> "F1", cbsdSerialNumber |-> "S1", userId |-> "U",
   cbsdCategory |-> "A", installationParam |-> InstallationParam(1)]

\* device_b before its conditionals are stripped
device_b_full ==
  [fccId |-> "F2", cbsdSerialNumber |-> "S2", userId |-> "U",
   cbsdCategory |-> "B", airInterface |-> "E_UTRA", measCapability |-> "M",
   installationParam |-> InstallationParam(2)]

\* conditionals_b
ConditionalsOf(device) ==
  [cbsdCategory |-> device.cbsdCategory, fccId |-> device.fccId,
   cbsdSerialNumber |-> device.cbsdSerialNumber,
   airInterface |-> device.airInterface,
   installationParam |-> device.installationParam,
   measCapability |-> device.measCapability]

\* del device_b['installationParam'], ['cbsdCategory'], ['airInterface'], ['measCapability']
Stripped(device) ==
  Del(Del(Del(Del(device, "installationParam"), "cbsdCategory"),
          "airInterface"), "measCapability")

device_b == Stripped(device_b_full)
conditionals_b == ConditionalsOf(device_b_full)

\* a second Category B device with its own conditionals
device_c_full ==
  [fccId |-> "F3", cbsdSerialNumber |-> "S3", userId |-> "U",
   cbsdCategory |-> "B", airInterface |-> "E_UTRA", measCapability |-> "M",
   installationParam |-> InstallationParam(3)]
device_c == Stripped(device_c_full)
conditionals_c == ConditionalsOf(device_c_full)

\* device_a with an incomplete inline installationParam
device_a_incomplete ==
  Update(device_a, "installationParam", Del(InstallationParam(1), "height"))

\* conditionals_b variants: a required field missing, no installationParam
\* object, no cbsdCategory
conditionals_b_noGain ==
  Update(conditionals_b, "installationParam",
         Del(InstallationParam(2), "antennaGain"))
conditionals_b_noParam == Del(conditionals_b, "installationParam")
conditionals_b_noCategory == Del(conditionals_b, "cbsdCategory")

DeviceChoices == {device_a, device_b, device_c, device_a_incomplete}
ConditionalChoices ==
  {conditionals_b, conditionals_c, conditionals_b_noGain,
   conditionals_b_noParam, conditionals_b_noCategory}

SeqsUpTo(S, n) == UNION {[1..k -> S] : k \in 0..n}

-----------------------------------------------------------------------------
(* assertRegConditionalsForPpaRefModel.  The loops run over list indexes;  *)
(* an exception ends them and leaves the devices as mutated so far.        *)

\* any([name not in params for name in CONDITIONAL_PARAMS_REQUIRED])
AnyRequiredMissing(params) ==
  \E name \in CONDITIONAL_PARAMS_REQUIRED : name \notin DOMAIN params

\* a device request carries an installationParam with the seven required fields
Complete(device) ==
  /\ "installationParam" \in DOMAIN device
  /\ ~AnyRequiredMissing(device.installationParam)

\* install_params as the conditional's whole installationParam object
InstallParams_CopiesAll(params) == params

\* install_params: the seven required fields of the conditional's installationParam
InstallParams(params) ==
  [name \in CONDITIONAL_PARAMS_REQUIRED |-> params[name]]

\* conditional_params['fccId'] == device['fccId'] and
\* conditional_params['cbsdSerialNumber'] == device['cbsdSerialNumber']
SameDevice(conditional_params, device) ==
  /\ conditional_params.fccId = device.fccId
  /\ conditional_params.cbsdSerialNumber = device.cbsdSerialNumber

Raise(device, err, data) == [device |-> device, err |-> err, data |-> data]
NoData == [nodata |-> TRUE]

\* the body of "for conditional_params in conditional_registration_data",
\* from the j-th conditional on, for one device without installationParam
RECURSIVE ConditionalsLoop(_, _, _)
ConditionalsLoop(device, conditionals, j) ==
  IF j > Len(conditionals) THEN Raise(device, "none", NoData)
  ELSE
    LET conditional_params == conditionals[j] IN
    IF "installationParam" \notin DOMAIN conditional_params
    THEN Raise(device, "AssertionError: installationParm Object is not found", NoData)
    ELSE IF ~SameDevice(conditional_params, device)
    THEN Raise(device, "ConfigError: Wrong REG-Conditional data", NoData)
    ELSE IF AnyRequiredMissing(conditional_params.installationParam)
    THEN Raise(device, "ConfigError: REG conditional parameter not found",
               conditional_params.installationParam)
    ELSE
      LET withParams == Update(device, "installationParam",
                               InstallParams(conditional_params.installationParam))
      IN IF "cbsdCategory" \notin DOMAIN conditional_params
         THEN Raise(withParams, "KeyError: cbsdCategory", NoData)
         ELSE ConditionalsLoop(
                Update(withParams, "cbsdCategory", conditional_params.cbsdCategory),
                conditionals, j + 1)

\* the body of the device loop with an else-branch that rewrites a complete
\* inline installationParam to its seven required fields
ReconcileDevice_RewritesInline(device, conditionals) ==
  IF "installationParam" \notin DOMAIN device
  THEN ConditionalsLoop(device, conditionals, 1)
  ELSE IF AnyRequiredMissing(device.installationParam)
       THEN Raise(device, "ConfigError: REG conditional parameter not found",
                  device.installationParam)
       ELSE Raise(Update(device, "installationParam",
                         InstallParams(device.installationParam)),
                  "none", NoData)

\* the body of "for device in registration_request" for one device
ReconcileDevice(device, conditionals) ==
  IF "installationParam" \notin DOMAIN device
  THEN ConditionalsLoop(device, conditionals, 1)
  ELSE IF AnyRequiredMissing(device.installationParam)
       THEN Raise(device, "ConfigError: REG conditional parameter not found",
                  device.installationParam)
       ELSE Raise(device, "none", NoData)

\* "for device in registration_request", from the i-th device on
RECURSIVE DevicesLoop(_, _, _)
DevicesLoop(devs, conditionals, i) ==
  IF i > Len(devs) THEN [devs |-> devs, err |-> "none", data |-> NoData]
  ELSE
    LET r == ReconcileDevice(devs[i], conditionals)
        devs1 == [devs EXCEPT ![i] = r.device]
    IN IF r.err # "none"
       THEN [devs |-> devs1, err |-> r.err, data |-> r.data]
       ELSE DevicesLoop(devs1, conditionals, i + 1)

\* reconcile working on a copy of the list that it puts in place only when
\* every device went through
Reconcile_AllOrNothing(registration_request, conditional_registration_data) ==
  LET r == DevicesLoop(registration_request, conditional_registration_data, 1)
  IN IF r.err = "none" THEN r ELSE [r EXCEPT !.devs = registration_request]

\* assertRegConditionalsForPpaRefModel(registration_request, conditional_registration_data)
Reconcile(registration_request, conditional_registration_data) ==
  DevicesLoop(registration_request, conditional_registration_data, 1)

\* the pairs <<i, j>> a call adds for which device i's installationParam is
\* the very object held by conditional record j, had the record's object
\* been installed on the device
InstalledAliases_RecordObject(registration_request, conditional_registration_data) ==
  {p \in (1..Len(registration_request)) \X (1..Len(conditional_registration_data)) :
     /\ "installationParam" \notin DOMAIN registration_request[p[1]]
     /\ SameDevice(conditional_registration_data[p[2]], registration_request[p[1]])
     /\ Complete(conditional_registration_data[p[2]])
     /\ Reconcile(registration_request, conditional_registration_data).err = "none"}

\* install_params = {} is a new dict and the seven values put in it are
\* numbers and booleans: what device.update installs shares no object with
\* any conditional record
InstalledAliases(registration_request, conditional_registration_data) ==
  {}


-----------------------------------------------------------------------------
(* Geometry.  Regions lie on a strip of LineLen cells, each cell BUFFER    *)
(* (1e-6) wide; a region is the set of the cells it covers, a polygon is a *)
(* run of adjacent cells.                                                  *)

Cells == 0..(LineLen - 1)
Polygons == {a..b : a, b \in Cells} \ {{}}

\* the census tracts GetCensusTract may answer: two adjacent tracts and one
\* that overlaps both
CensusTracts == {0..5, 6..(LineLen - 1), 2..9}
TractLists == SeqsUpTo(CensusTracts, MaxPalRecords) \ {<<>>}

\* ops.cascaded_union(census_tracts_for_pal)
cascaded_union(census_tracts_for_pal) ==
  UNION {census_tracts_for_pal[k] : k \in DOMAIN census_tracts_for_pal}

\* geometry.buffer(distance): every cell within distance of the region for
\* a positive distance; for a negative one, the cells of the region whose
\* surroundings up to that distance lie in the region
buffer(geometry, distance) ==
  IF distance >= 0
  THEN {c \in (0 - distance)..(LineLen - 1 + distance) :
          \E e \in geometry : e - distance <= c /\ c <= e + distance}
  ELSE {c \in geometry :
          \A e \in (c + distance)..(c - distance) : e \in geometry}

\* a.within(b): no point of a lies outside b and a is not empty
within(a, b) == a # {} /\ a \subseteq b

\* isPpaWithinServiceArea, given the census tract of each PAL record
isPpaWithinServiceArea(census_tracts_for_pal, ppa_zone_geometry) ==
  LET pal_service_area == cascaded_union(census_tracts_for_pal)
  IN within(buffer(ppa_zone_geometry, 0 - BUFFER), pal_service_area)

\* polygon.area
Area(polygon) == Cardinality(polygon)

\* utils.PolygonsAlmostEqual(poly_ref, poly, tol_perc): the area of the union
\* minus the intersection is at most tol_perc percent of the area of
\* poly_ref; an empty polygon is almost equal to nothing
PolygonsAlmostEqual(poly_ref, poly, tol_perc) ==
  /\ poly_ref # {} /\ poly # {}
  /\ 100 * (Area(poly_ref \cup poly) - Area(poly_ref \cap poly))
       <= tol_perc * Area(poly_ref)

\* the scenario runs: the census tracts of the two PAL records of the
\* configuration, adjacent to each other, and the PPA zones the UUT and the
\* reference model produce
ScenarioTracts == <<2..5, 6..9>>
UutPolygons == {2..9, 0..7}
RefPolygons == {2..9, 2..8}
ScenarioGeo == [tracts |-> ScenarioTracts, uut |-> NoRegion, ref |-> NoRegion]

\* Python's True and False as values of the check results
Bool(b) == IF b THEN "True" ELSE "False"

-----------------------------------------------------------------------------
(* The environment: the SAS UUT and the clock.                             *)

\* GetPpaCreationStatus() answers {'completed': ..., 'withError': ...}
Statuses == [completed : BOOLEAN, withError : BOOLEAN]
InProgress == [completed |-> FALSE, withError |-> FALSE]

\* identifiers TriggerPpaCreation may answer, and identifiers of zone records
PpaIds == {"ppa1"}
ZoneIds == {"ppa1", "ppa2"}
ZoneRecords == [id : ZoneIds]
ZoneLists == SeqsUpTo(ZoneRecords, MaxZones)

\* configurations the test is run on: the default one of
\* generate_PCR_1_default_config, then the default one with the conditionals
\* left out, with one required field left out, and with two Category B devices
ScenarioConfigs ==
  { [registrationRequests |-> <<device_a, device_b>>,
     conditionalRegistrationData |-> <<conditionals_b>>],
    [registrationRequests |-> <<device_a, device_b>>,
     conditionalRegistrationData |-> <<>>],
    [registrationRequests |-> <<device_a, device_b>>,
     conditionalRegistrationData |-> <<conditionals_b_noGain>>],
    [registrationRequests |-> <<device_b, device_c>>,
     conditionalRegistrationData |-> <<conditionals_b, conditionals_c>>] }

\* the devices of the registrationRequests list, by index
Devices == 1..Len(config.registrationRequests)
Conditionals == 1..Len(config.conditionalRegistrationData)

Disarmed == [armed |-> FALSE, at |-> 0]

\* SIGALRM is due: the timer is armed and its time has come
AlarmDue == alarm.armed /\ now >= alarm.at

\* positions inside triggerPpaCreationAndWaitUntilComplete once the timer is set
PollerPcs == {"poll", "sleep", "check", "return"}
Terminal == {"passed", "failed"}

\* an exception (or failed assertion) propagates out of the test method
Fail(kind) ==
  /\ outcome' = kind
  /\ failedAt' = pc
  /\ pc' = "failed"

-----------------------------------------------------------------------------
(* test_WINNF_FT_S_PCR_1, up to the poller.                                *)

Init ==
  /\ pc = "setUp"
  /\ config \in ScenarioConfigs
  /\ uutStatus = InProgress
  /\ ppa_id = NotYet
  /\ now = 0
  /\ alarm = Disarmed
  /\ queries = 0
  /\ loopStatus = NoStatus
  /\ checkStatus = NoStatus
  /\ pollerReturn = NotYet
  /\ zones = <<>>
  /\ zoneData = NoZone
  /\ called = {}
  /\ outcome = "running"
  /\ failedAt = "none"
  /\ strayAlarm = FALSE
  /\ reconciled = NoResult
  /\ calls = 0
  /\ shared = {}
  /\ geo = ScenarioGeo
  /\ checks = NoChecks
  /\ runs = NoRuns

\* setUp: self._sas_admin.Reset()
SetUp ==
  /\ pc = "setUp"
  /\ called' = called \cup {"Reset"}
  /\ pc' = "checkPaths"
  /\ UNCHANGED <<config, uutStatus, ppa_id, now, alarm, queries, loopStatus,
                 checkStatus, pollerReturn, zones, zoneData, outcome,
                 failedAt, strayAlarm, reconciled, calls,
                 shared, geo, checks, runs>>

\* the four assertTrue(os.path.exists(...)) on the data directories
CheckDataPaths ==
  /\ pc = "checkPaths"
  /\ \E exist \in BOOLEAN :
       IF exist THEN pc' = "injectPal" /\ UNCHANGED <<outcome, failedAt>>
       ELSE Fail("AssertionFailure")
  /\ UNCHANGED <<config, uutStatus, ppa_id, now, alarm, queries, loopStatus,
                 checkStatus, pollerReturn, zones, zoneData, called,
                 strayAlarm, reconciled, calls,
                 shared, geo, checks, runs>>

\* for pal_record in config['palRecords']: InjectPalDatabaseRecord(pal_record)
InjectPalRecords ==
  /\ pc = "injectPal"
  /\ called' = called \cup {"InjectPalDatabaseRecord"}
  /\ pc' = "register"
  /\ UNCHANGED <<config, uutStatus, ppa_id, now, alarm, queries, loopStatus,
                 checkStatus, pollerReturn, zones, zoneData, outcome,
                 failedAt, strayAlarm, reconciled, calls,
                 shared, geo, checks, runs>>

\* cbsd_ids = self.assertRegistered(registrationRequests, conditionalRegistrationData)
AssertRegistered ==
  /\ pc = "register"
  /\ called' = called \cup {"assertRegistered"}
  /\ \E registered \in BOOLEAN :
       IF registered THEN pc' = "trigger" /\ UNCHANGED <<outcome, failedAt>>
       ELSE Fail("AssertionFailure")
  /\ UNCHANGED <<config, uutStatus, ppa_id, now, alarm, queries, loopStatus,
                 checkStatus, pollerReturn, zones, zoneData, strayAlarm,
                 reconciled, calls,
                 shared, geo, checks, runs>>

-----------------------------------------------------------------------------
(* triggerPpaCreationAndWaitUntilComplete.                                 *)

\* TriggerPpaCreation without the assertIsNotNone: a None identifier goes on
TriggerPpaCreation_NoNoneCheck ==
  /\ pc = "trigger"
  /\ called' = called \cup {"TriggerPpaCreation"}
  /\ \E id \in PpaIds \cup {None} :
       /\ ppa_id' = id
       /\ pc' = "arm"
       /\ UNCHANGED <<outcome, failedAt>>
  /\ uutStatus' \in Statuses
  /\ UNCHANGED <<config, now, alarm, queries, loopStatus, checkStatus,
                 pollerReturn, zones, zoneData, strayAlarm, reconciled, calls,
                 shared, geo, checks, runs>>

\* ppa_id = TriggerPpaCreation(request); self.assertIsNotNone(ppa_id)
TriggerPpaCreation ==
  /\ pc = "trigger"
  /\ called' = called \cup {"TriggerPpaCreation"}
  /\ \E id \in PpaIds \cup {None} :
       /\ ppa_id' = id
       /\ IF id = None THEN Fail("AssertionFailure")
          ELSE pc' = "arm" /\ UNCHANGED <<outcome, failedAt>>
  /\ uutStatus' \in Statuses
  /\ UNCHANGED <<config, now, alarm, queries, loopStatus, checkStatus,
                 pollerReturn, zones, zoneData, strayAlarm, reconciled, calls,
                 shared, geo, checks, runs>>

\* ArmAlarm with the timer set in polling intervals instead of seconds
ArmAlarm_ShortDeadline ==
  /\ pc = "arm"
  /\ alarm' = [armed |-> TRUE, at |-> now + (DEADLINE \div SLEEP)]
  /\ pc' = "poll"
  /\ UNCHANGED <<config, uutStatus, ppa_id, now, queries, loopStatus,
                 checkStatus, pollerReturn, zones, zoneData, called, outcome,
                 failedAt, strayAlarm, reconciled, calls,
                 shared, geo, checks, runs>>

\* signal.signal(SIGALRM, handler); signal.alarm(7200)
ArmAlarm ==
  /\ pc = "arm"
  /\ alarm' = [armed |-> TRUE, at |-> now + DEADLINE]
  /\ pc' = "poll"
  /\ UNCHANGED <<config, uutStatus, ppa_id, now, queries, loopStatus,
                 checkStatus, pollerReturn, zones, zoneData, called, outcome,
                 failedAt, strayAlarm, reconciled, calls,
                 shared, geo, checks, runs>>

\* while not GetPpaCreationStatus()['completed']: one evaluation of the condition
QueryCompleted ==
  /\ pc = "poll"
  /\ ~AlarmDue
  /\ called' = called \cup {"GetPpaCreationStatus"}
  /\ queries' = queries + 1
  /\ loopStatus' = uutStatus
  /\ pc' = IF uutStatus.completed THEN "check" ELSE "sleep"
  /\ UNCHANGED <<config, uutStatus, ppa_id, now, alarm, checkStatus,
                 pollerReturn, zones, zoneData, outcome, failedAt, strayAlarm,
                 reconciled, calls,
                 shared, geo, checks, runs>>

\* time.sleep(10); SIGALRM ends the sleep early
Sleep ==
  /\ pc = "sleep"
  /\ ~AlarmDue
  /\ now' = IF alarm.armed /\ alarm.at < now + SLEEP THEN alarm.at
            ELSE now + SLEEP
  /\ pc' = "poll"
  /\ UNCHANGED <<config, uutStatus, ppa_id, alarm, queries, loopStatus,
                 checkStatus, pollerReturn, zones, zoneData, called, outcome,
                 failedAt, strayAlarm, reconciled, calls,
                 shared, geo, checks, runs>>

\* CheckWithError without the assertFalse: the error flag is read and ignored
CheckWithError_NoAssert ==
  /\ pc = "check"
  /\ ~AlarmDue
  /\ called' = called \cup {"GetPpaCreationStatus"}
  /\ queries' = queries + 1
  /\ checkStatus' = uutStatus
  /\ pc' = "return"
  /\ UNCHANGED <<config, uutStatus, ppa_id, now, alarm, loopStatus,
                 pollerReturn, zones, zoneData, strayAlarm, reconciled, calls,
                 outcome, failedAt,
                 shared, geo, checks, runs>>

\* assertFalse(GetPpaCreationStatus()['withError'])
CheckWithError ==
  /\ pc = "check"
  /\ ~AlarmDue
  /\ called' = called \cup {"GetPpaCreationStatus"}
  /\ queries' = queries + 1
  /\ checkStatus' = uutStatus
  /\ IF uutStatus.withError THEN Fail("AssertionFailure")
     ELSE pc' = "return" /\ UNCHANGED <<outcome, failedAt>>
  /\ UNCHANGED <<config, uutStatus, ppa_id, now, alarm, loopStatus,
                 pollerReturn, zones, zoneData, strayAlarm, reconciled, calls,
                 shared, geo, checks, runs>>

\* ReturnPpaId without signal.alarm(0): the identifier is returned with the
\* timer left armed
ReturnPpaId_AlarmLeftArmed ==
  /\ pc = "return"
  /\ ~AlarmDue
  /\ pollerReturn' = ppa_id
  /\ pc' = "fad"
  /\ UNCHANGED <<config, uutStatus, ppa_id, now, queries, loopStatus,
                 checkStatus, zones, zoneData, called, outcome, failedAt,
                 strayAlarm, reconciled, calls, alarm,
                 shared, geo, checks, runs>>

\* ReturnPpaId without the return statement: the call answers None
ReturnPpaId_NoReturnValue ==
  /\ pc = "return"
  /\ ~AlarmDue
  /\ alarm' = Disarmed
  /\ pollerReturn' = None
  /\ pc' = "fad"
  /\ UNCHANGED <<config, uutStatus, ppa_id, now, queries, loopStatus,
                 checkStatus, zones, zoneData, called, outcome, failedAt,
                 strayAlarm, reconciled, calls,
                 shared, geo, checks, runs>>

\* signal.alarm(0); return ppa_id
ReturnPpaId ==
  /\ pc = "return"
  /\ ~AlarmDue
  /\ alarm' = Disarmed
  /\ pollerReturn' = ppa_id
  /\ pc' = "fad"
  /\ UNCHANGED <<config, uutStatus, ppa_id, now, queries, loopStatus,
                 checkStatus, zones, zoneData, called, outcome, failedAt,
                 strayAlarm, reconciled, calls,
                 shared, geo, checks, runs>>

\* GetPpaCreationStatus() raises (the request to the UUT fails)
QueryRaises ==
  /\ pc \in {"poll", "check"}
  /\ ~AlarmDue
  /\ called' = called \cup {"GetPpaCreationStatus"}
  /\ Fail("QueryError")
  /\ UNCHANGED <<config, uutStatus, ppa_id, now, alarm, queries, loopStatus,
                 checkStatus, pollerReturn, zones, zoneData, strayAlarm,
                 reconciled, calls,
                 shared, geo, checks, runs>>

\* SIGALRM is delivered inside the poller: the handler raises
\* Exception('Most Recent PPA Creation Status Check Timeout')
Timeout ==
  /\ pc \in PollerPcs
  /\ AlarmDue
  /\ alarm' = Disarmed
  /\ Fail("Timeout")
  /\ UNCHANGED <<config, uutStatus, ppa_id, now, queries, loopStatus,
                 checkStatus, pollerReturn, zones, zoneData, called,
                 strayAlarm, reconciled, calls,
                 shared, geo, checks, runs>>

\* the UUT changes its creation status while the harness polls
UutChangesStatus ==
  /\ pc \in PollerPcs
  /\ uutStatus' \in Statuses \ {uutStatus}
  /\ UNCHANGED <<pc, config, ppa_id, now, alarm, queries, loopStatus,
                 checkStatus, pollerReturn, zones, zoneData, called, outcome,
                 failedAt, strayAlarm, reconciled, calls,
                 shared, geo, checks, runs>>

\* the test method has ended with the timer still armed: time runs on until
\* the timer expires
Elapse ==
  /\ pc \in Terminal
  /\ alarm.armed
  /\ now < alarm.at
  /\ now' = alarm.at
  /\ UNCHANGED <<pc, config, uutStatus, ppa_id, alarm, queries, loopStatus,
                 checkStatus, pollerReturn, zones, zoneData, called, outcome,
                 failedAt, strayAlarm, reconciled, calls,
                 shared, geo, checks, runs>>

\* SIGALRM is delivered after the poller call has exited
StrayAlarm ==
  /\ pc \in Terminal
  /\ AlarmDue
  /\ alarm' = Disarmed
  /\ strayAlarm' = TRUE
  /\ UNCHANGED <<pc, config, uutStatus, ppa_id, now, queries, loopStatus,
                 checkStatus, pollerReturn, zones, zoneData, called, outcome,
                 failedAt, reconciled, calls,
                 shared, geo, checks, runs>>

-----------------------------------------------------------------------------
(* triggerFadAndRetrievePpaZone and the rest of test_WINNF_FT_S_PCR_1.     *)

\* InjectPeerSas(...); uut_fad = getFullActivityDumpSasUut(...);
\* uut_ppa_zone_data = uut_fad.getZoneRecords();
\* assertEquals(len(uut_ppa_zone_data), 2); return uut_ppa_zone_data[0]
TriggerFad ==
  /\ pc = "fad"
  /\ called' = called \cup {"InjectPeerSas", "getFullActivityDumpSasUut"}
  /\ \E uut_ppa_zone_data \in ZoneLists :
       /\ zones' = uut_ppa_zone_data
       /\ IF Len(uut_ppa_zone_data) = EXPECTED_ZONE_COUNT
          THEN /\ zoneData' = uut_ppa_zone_data[1]
               /\ \E uut_ppa_geometry \in UutPolygons :
                    geo' = [geo EXCEPT !.uut = uut_ppa_geometry]
               /\ pc' = "reconcile"
               /\ UNCHANGED <<outcome, failedAt>>
          ELSE /\ Fail("AssertionFailure")
               /\ UNCHANGED <<zoneData, geo>>
  /\ UNCHANGED <<config, uutStatus, ppa_id, now, alarm, queries, loopStatus,
                 checkStatus, pollerReturn, strayAlarm, reconciled, calls,
                 shared, checks, runs>>

\* AssertRegConditionals with the except clause swallowing the error
AssertRegConditionals_ErrorSwallowed ==
  /\ pc = "reconcile"
  /\ called' = called \cup {"assertRegConditionalsForPpaRefModel"}
  /\ LET r == Reconcile(config.registrationRequests,
                        config.conditionalRegistrationData)
     IN /\ reconciled' = r
        /\ config' = [config EXCEPT !.registrationRequests = r.devs]
  /\ pc' = "refModel"
  /\ calls' = calls + 1
  /\ shared' = shared \cup InstalledAliases(config.registrationRequests,
                                            config.conditionalRegistrationData)
  /\ UNCHANGED <<uutStatus, ppa_id, now, alarm, queries, loopStatus,
                 checkStatus, pollerReturn, zones, zoneData, strayAlarm,
                 outcome, failedAt,
                 geo, checks, runs>>

\* try: self.assertRegConditionalsForPpaRefModel(registrationRequests,
\*        conditionalRegistrationData)
\* except Exception as err: self.fail(err.message)
AssertRegConditionals ==
  /\ pc = "reconcile"
  /\ called' = called \cup {"assertRegConditionalsForPpaRefModel"}
  /\ LET r == Reconcile(config.registrationRequests,
                        config.conditionalRegistrationData)
     IN /\ reconciled' = r
        /\ config' = [config EXCEPT !.registrationRequests = r.devs]
        /\ IF r.err = "none"
           THEN pc' = "refModel" /\ UNCHANGED <<outcome, failedAt>>
           ELSE Fail("AssertionFailure")
  /\ calls' = calls + 1
  /\ shared' = shared \cup InstalledAliases(config.registrationRequests,
                                            config.conditionalRegistrationData)
  /\ UNCHANGED <<uutStatus, ppa_id, now, alarm, queries, loopStatus,
                 checkStatus, pollerReturn, zones, zoneData, strayAlarm,
                 geo, checks, runs>>

\* test_harness_ppa_geometry = ppa.PpaCreationModel(registrationRequests, palRecords)
PpaCreationModel ==
  /\ pc = "refModel"
  /\ called' = called \cup {"PpaCreationModel"}
  /\ \E test_harness_ppa_geometry \in RefPolygons :
       geo' = [geo EXCEPT !.ref = test_harness_ppa_geometry]
  /\ pc' = "within"
  /\ UNCHANGED <<config, uutStatus, ppa_id, now, alarm, queries, loopStatus,
                 checkStatus, pollerReturn, zones, zoneData, outcome,
                 failedAt, strayAlarm, reconciled, calls,
                 shared, checks, runs>>

\* self.assertTrue(isPpaWithinServiceArea(palRecords, uut_ppa_geometry))
AssertWithinServiceArea ==
  /\ pc = "within"
  /\ called' = called \cup {"isPpaWithinServiceArea"}
  /\ LET result == isPpaWithinServiceArea(geo.tracts, geo.uut)
     IN /\ checks' = [checks EXCEPT !.within = Bool(result)]
        /\ IF result
           THEN pc' = "almostEqual" /\ UNCHANGED <<outcome, failedAt>>
           ELSE Fail("AssertionFailure")
  /\ UNCHANGED <<config, uutStatus, ppa_id, now, alarm, queries, loopStatus,
                 checkStatus, pollerReturn, zones, zoneData, strayAlarm,
                 reconciled, calls,
                 shared, geo, runs>>

\* the last assertion with its result ignored
AssertPolygonsAlmostEqual_NotAsserted ==
  /\ pc = "almostEqual"
  /\ called' = called \cup {"PolygonsAlmostEqual"}
  /\ checks' = [checks EXCEPT !.almostEqual =
                  Bool(PolygonsAlmostEqual(geo.ref, geo.uut, TOLERANCE_PERCENT))]
  /\ pc' = "passed" /\ outcome' = "passed" /\ UNCHANGED failedAt
  /\ UNCHANGED <<config, uutStatus, ppa_id, now, alarm, queries, loopStatus,
                 checkStatus, pollerReturn, zones, zoneData, strayAlarm,
                 reconciled, calls,
                 shared, geo, runs>>

\* the last assertion with the UUT polygon passed as the reference
AssertPolygonsAlmostEqual_UutAsReference ==
  /\ pc = "almostEqual"
  /\ called' = called \cup {"PolygonsAlmostEqual"}
  /\ LET result == PolygonsAlmostEqual(geo.uut, geo.ref, TOLERANCE_PERCENT)
     IN /\ checks' = [checks EXCEPT !.almostEqual = Bool(result)]
        /\ IF result
           THEN pc' = "passed" /\ outcome' = "passed" /\ UNCHANGED failedAt
           ELSE Fail("AssertionFailure")
  /\ UNCHANGED <<config, uutStatus, ppa_id, now, alarm, queries, loopStatus,
                 checkStatus, pollerReturn, zones, zoneData, strayAlarm,
                 reconciled, calls,
                 shared, geo, runs>>

\* self.assertTrue(utils.PolygonsAlmostEqual(test_harness_ppa_geometry, uut_ppa_geometry))
AssertPolygonsAlmostEqual ==
  /\ pc = "almostEqual"
  /\ called' = called \cup {"PolygonsAlmostEqual"}
  /\ LET result == PolygonsAlmostEqual(geo.ref, geo.uut, TOLERANCE_PERCENT)
     IN /\ checks' = [checks EXCEPT !.almostEqual = Bool(result)]
        /\ IF result
           THEN pc' = "passed" /\ outcome' = "passed" /\ UNCHANGED failedAt
           ELSE Fail("AssertionFailure")
  /\ UNCHANGED <<config, uutStatus, ppa_id, now, alarm, queries, loopStatus,
                 checkStatus, pollerReturn, zones, zoneData, strayAlarm,
                 reconciled, calls,
                 shared, geo, runs>>

Poller ==
  \/ TriggerPpaCreation
  \/ ArmAlarm
  \/ QueryCompleted
  \/ Sleep
  \/ CheckWithError
  \/ ReturnPpaId
  \/ QueryRaises
  \/ Timeout

Next ==
  \/ SetUp
  \/ CheckDataPaths
  \/ InjectPalRecords
  \/ AssertRegistered
  \/ Poller
  \/ UutChangesStatus
  \/ TriggerFad
  \/ AssertRegConditionals
  \/ PpaCreationModel
  \/ AssertWithinServiceArea
  \/ AssertPolygonsAlmostEqual
  \/ Elapse
  \/ StrayAlarm

\* one run of test_WINNF_FT_S_PCR_1
Spec == Init /\ [][Next]_vars

-----------------------------------------------------------------------------
(* The test from the poller call on, on the default configuration: one     *)
(* call of triggerPpaCreationAndWaitUntilComplete, what the test does with *)
(* the identifier it returns, and whatever the timer does.  The harness is *)
(* a single thread that keeps running and the kernel delivers SIGALRM when *)
(* it is due: every step of the poller and the delivery of the signal are  *)
(* weakly fair.  Nothing is assumed of the UUT.                            *)

PollerInit ==
  /\ pc = "trigger"
  /\ config = [registrationRequests |-> <<device_a, device_b>>,
               conditionalRegistrationData |-> <<conditionals_b>>]
  /\ uutStatus = InProgress
  /\ ppa_id = NotYet
  /\ now = 0
  /\ alarm = Disarmed
  /\ queries = 0
  /\ loopStatus = NoStatus
  /\ checkStatus = NoStatus
  /\ pollerReturn = NotYet
  /\ zones = <<>>
  /\ zoneData = NoZone
  /\ called = {"Reset", "InjectPalDatabaseRecord", "assertRegistered"}
  /\ outcome = "running"
  /\ failedAt = "none"
  /\ strayAlarm = FALSE
  /\ reconciled = NoResult
  /\ calls = 0
  /\ shared = {}
  /\ geo = ScenarioGeo
  /\ checks = NoChecks
  /\ runs = NoRuns

PollerNext ==
  \/ Poller
  \/ UutChangesStatus
  \/ TriggerFad
  \/ AssertRegConditionals
  \/ PpaCreationModel
  \/ AssertWithinServiceArea
  \/ AssertPolygonsAlmostEqual
  \/ Elapse
  \/ StrayAlarm

PollerSpec ==
  /\ PollerInit
  /\ [][PollerNext]_vars
  /\ WF_vars(TriggerPpaCreation)
  /\ WF_vars(ArmAlarm)
  /\ WF_vars(QueryCompleted)
  /\ WF_vars(Sleep)
  /\ WF_vars(CheckWithError)
  /\ WF_vars(ReturnPpaId)
  /\ WF_vars(Timeout)
  /\ WF_vars(Elapse)
  /\ WF_vars(StrayAlarm)

-----------------------------------------------------------------------------
(* assertRegConditionalsForPpaRefModel on its own: called, and called      *)
(* again, on every registrationRequests and conditionalRegistrationData    *)
(* list within the bounds.                                                 *)

ReconcileInit ==
  /\ pc = "reconcile"
  /\ config \in [registrationRequests : SeqsUpTo(DeviceChoices, MaxDevices),
                 conditionalRegistrationData :
                   SeqsUpTo(ConditionalChoices, MaxConditionals)]
  /\ uutStatus = InProgress
  /\ ppa_id = NotYet
  /\ now = 0
  /\ alarm = Disarmed
  /\ queries = 0
  /\ loopStatus = NoStatus
  /\ checkStatus = NoStatus
  /\ pollerReturn = NotYet
  /\ zones = <<>>
  /\ zoneData = NoZone
  /\ called = {}
  /\ outcome = "running"
  /\ failedAt = "none"
  /\ strayAlarm = FALSE
  /\ reconciled = NoResult
  /\ calls = 0
  /\ shared = {}
  /\ geo = ScenarioGeo
  /\ checks = NoChecks
  /\ runs = NoRuns

\* the caller calls assertRegConditionalsForPpaRefModel once more with the
\* same two lists, as the first call left them
ReconcileAgain ==
  /\ pc \in {"refModel", "failed"}
  /\ calls < MaxCalls
  /\ pc' = "reconcile"
  /\ outcome' = "running"
  /\ failedAt' = "none"
  /\ UNCHANGED <<config, uutStatus, ppa_id, now, alarm, queries, loopStatus,
                 checkStatus, pollerReturn, zones, zoneData, called,
                 strayAlarm, reconciled, calls,
                 shared, geo, checks, runs>>

\* after reconcile has returned, the caller writes a field of the
\* installationParam of a device: the write lands in every object that
\* installationParam is
ChangeInstallationParam ==
  /\ pc \in {"refModel", "failed"}
  /\ \E i \in Devices :
       /\ Complete(config.registrationRequests[i])
       /\ config.registrationRequests[i].installationParam.antennaGain # 0
       /\ config' =
            [registrationRequests |->
               [config.registrationRequests EXCEPT
                  ![i].installationParam.antennaGain = 0],
             conditionalRegistrationData |->
               [j \in Conditionals |->
                  IF <<i, j>> \in shared
                  THEN [config.conditionalRegistrationData[j] EXCEPT
                          !.installationParam.antennaGain = 0]
                  ELSE config.conditionalRegistrationData[j]]]
  /\ UNCHANGED <<pc, uutStatus, ppa_id, now, alarm, queries, loopStatus,
                 checkStatus, pollerReturn, zones, zoneData, called, outcome,
                 failedAt, strayAlarm, reconciled, calls,
                 shared, geo, checks, runs>>

ReconcileNext ==
  \/ AssertRegConditionals
  \/ ReconcileAgain
  \/ ChangeInstallationParam

ReconcileSpec == ReconcileInit /\ [][ReconcileNext]_vars

-----------------------------------------------------------------------------
(* The two geometry checks on their own: the end of a run whose earlier    *)
(* steps succeeded on the default configuration, for every list of census  *)
(* tracts and every UUT and reference polygon on the strip.                *)

GeometryInit ==
  /\ pc = "within"
  /\ config = [registrationRequests |->
                 Reconcile(<<device_a, device_b>>, <<conditionals_b>>).devs,
               conditionalRegistrationData |-> <<conditionals_b>>]
  /\ uutStatus = [completed |-> TRUE, withError |-> FALSE]
  /\ ppa_id = "ppa1"
  /\ now = 0
  /\ alarm = Disarmed
  /\ queries = 2
  /\ loopStatus = [completed |-> TRUE, withError |-> FALSE]
  /\ checkStatus = [completed |-> TRUE, withError |-> FALSE]
  /\ pollerReturn = "ppa1"
  /\ zones = <<[id |-> "ppa1"], [id |-> "ppa2"]>>
  /\ zoneData = [id |-> "ppa1"]
  /\ called = {"Reset", "InjectPalDatabaseRecord", "assertRegistered",
               "TriggerPpaCreation", "GetPpaCreationStatus", "InjectPeerSas",
               "getFullActivityDumpSasUut",
               "assertRegConditionalsForPpaRefModel", "PpaCreationModel"}
  /\ outcome = "running"
  /\ failedAt = "none"
  /\ strayAlarm = FALSE
  /\ reconciled = Reconcile(<<device_a, device_b>>, <<conditionals_b>>)
  /\ calls = 1
  /\ shared = {}
  /\ geo \in [tracts : TractLists, uut : Polygons, ref : Polygons]
  /\ checks = NoChecks
  /\ runs = NoRuns

GeometryNext ==
  \/ AssertWithinServiceArea
  \/ AssertPolygonsAlmostEqual

GeometrySpec == GeometryInit /\ [][GeometryNext]_vars

-----------------------------------------------------------------------------
(* Two scenario runs polling in one process.  signal.signal and            *)
(* signal.alarm act on the process: there is one SIGALRM handler and one   *)
(* alarm clock, the variable alarm, whichever run sets them.  Run 1 polls  *)
(* on the main thread; run 2 polls on the main thread too (the runs take   *)
(* turns at their sleeps) or on a worker thread, where signal.signal       *)
(* raises ValueError.  The handler runs on the main thread and its         *)
(* exception ends the call in progress there.                              *)

Runs == {1, 2}
\* a run: its position, its thread, the time its own deadline falls due and
\* the time the timeout ended it
Idle == [pc |-> "idle", thread |-> "main", deadline |-> 0, endedAt |-> 0]

\* the last time the concurrent runs are followed to
Horizon == DEADLINE + (MaxStartDelay + 1) * SLEEP

ConcurrentInit ==
  /\ pc = "concurrent"
  /\ config = [registrationRequests |-> <<device_a, device_b>>,
               conditionalRegistrationData |-> <<conditionals_b>>]
  /\ uutStatus = InProgress
  /\ ppa_id = NotYet
  /\ now = 0
  /\ alarm = Disarmed
  /\ queries = 0
  /\ loopStatus = NoStatus
  /\ checkStatus = NoStatus
  /\ pollerReturn = NotYet
  /\ zones = <<>>
  /\ zoneData = NoZone
  /\ called = {"Reset", "InjectPalDatabaseRecord", "assertRegistered"}
  /\ outcome = "running"
  /\ failedAt = "none"
  /\ strayAlarm = FALSE
  /\ reconciled = NoResult
  /\ calls = 0
  /\ shared = {}
  /\ geo = ScenarioGeo
  /\ checks = NoChecks
  /\ \E thread \in {"main", "worker"} :
       runs = [r \in Runs |->
                 IF r = 1 THEN Idle ELSE [Idle EXCEPT !.thread = thread]]

\* the variables of the single-run model, which the concurrent runs leave alone
singleRunVars ==
  <<pc, config, uutStatus, ppa_id, queries, loopStatus, checkStatus,
    pollerReturn, zones, zoneData, called, outcome, failedAt, reconciled,
    calls, shared, geo, checks>>

\* ppa_id = TriggerPpaCreation(ppa_creation_request): run r enters the poller
RunTriggerPpaCreation(r) ==
  /\ runs[r].pc = "idle"
  /\ r = 2 => (runs[1].pc # "idle" /\ now <= MaxStartDelay * SLEEP)
  /\ runs' = [runs EXCEPT ![r].pc = "arm"]
  /\ UNCHANGED <<singleRunVars, now, alarm, strayAlarm>>

\* signal.signal(signal.SIGALRM, handler); signal.alarm(7200) in run r
RunArmAlarm(r) ==
  /\ runs[r].pc = "arm"
  /\ IF runs[r].thread = "main"
     THEN /\ alarm' = [armed |-> TRUE, at |-> now + DEADLINE]
          /\ runs' = [runs EXCEPT ![r].pc = "poll",
                                  ![r].deadline = now + DEADLINE]
     ELSE /\ runs' = [runs EXCEPT ![r].pc = "ValueError"]
          /\ UNCHANGED alarm
  /\ UNCHANGED <<singleRunVars, now, strayAlarm>>

\* while not GetPpaCreationStatus()['completed']: time.sleep(10), for every
\* run that is polling: ten seconds pass, or less when SIGALRM comes first
\* (a run that has entered the poller sets its timer before any sleep ends)
RunsSleep ==
  /\ \E r \in Runs : runs[r].pc = "poll"
  /\ \A r \in Runs : runs[r].pc # "arm"
  /\ ~AlarmDue
  /\ now < Horizon
  /\ now' = IF alarm.armed /\ alarm.at < now + SLEEP THEN alarm.at
            ELSE now + SLEEP
  /\ UNCHANGED <<singleRunVars, alarm, strayAlarm, runs>>

\* the loop of run r reads completed, the check reads no error:
\* signal.alarm(0); return ppa_id
RunReturnPpaId(r) ==
  /\ runs[r].pc = "poll"
  /\ ~(AlarmDue /\ runs[r].thread = "main")
  /\ alarm' = Disarmed
  /\ runs' = [runs EXCEPT ![r].pc = "returned"]
  /\ UNCHANGED <<singleRunVars, now, strayAlarm>>

\* SIGALRM: the handler raises Exception('...Timeout') on the main thread, in
\* the poller call that is running there; with none running the exception
\* lands in whatever the main thread does
AlarmHandler ==
  /\ AlarmDue
  /\ alarm' = Disarmed
  /\ IF \E r \in Runs : runs[r].pc = "poll" /\ runs[r].thread = "main"
     THEN /\ \E r \in Runs :
               /\ runs[r].pc = "poll" /\ runs[r].thread = "main"
               /\ runs' = [runs EXCEPT ![r].pc = "Timeout", ![r].endedAt = now]
          /\ UNCHANGED strayAlarm
     ELSE /\ strayAlarm' = TRUE
          /\ UNCHANGED runs
  /\ UNCHANGED <<singleRunVars, now>>

ConcurrentNext ==
  \/ \E r \in Runs : RunTriggerPpaCreation(r)
  \/ \E r \in Runs : RunArmAlarm(r)
  \/ RunsSleep
  \/ \E r \in Runs : RunReturnPpaId(r)
  \/ AlarmHandler

ConcurrentSpec == ConcurrentInit /\ [][ConcurrentNext]_vars

-----------------------------------------------------------------------------
(* Properties.                                                             *)

\* the call of triggerPpaCreationAndWaitUntilComplete has exited
PollerExited ==
  pc \in {"fad", "reconcile", "refModel", "within", "almostEqual", "passed"}
  \/ (pc = "failed" /\ failedAt \in {"trigger", "poll", "sleep", "check", "return"})

\* C1 (as claimed): once the poller call has exited, by return, by the failed
\* withError assertion or by an exception of the status query, the deadline
\* timer is not armed and no timeout fires after the exit.
C1_TimerDisarmedOnEveryExit ==
  PollerExited => (~alarm.armed /\ ~strayAlarm)

\* C2 (as claimed): once the activity dump has been retrieved,
\* triggerFadAndRetrievePpaZone has returned a zone record if and only if the
\* dump holds exactly one zone record.
C2_ReturnsIffExactlyOneZone ==
  "getFullActivityDumpSasUut" \in called =>
    ((zoneData # NoZone) <=> (Len(zones) = 1))

\* C3 (as claimed): a zone record returned by triggerFadAndRetrievePpaZone
\* carries the identifier ppa_id the call was given.
C3_ReturnedZoneMatchesPpaId ==
  zoneData # NoZone => zoneData.id = ppa_id

\* C4 (as claimed): whenever reconcile returns normally, every device request
\* of the list carries an installationParam with all seven required fields.
C4_NormalReturnMeansAllComplete ==
  reconciled.err = "none" =>
    \A i \in Devices : Complete(config.registrationRequests[i])

\* the conditional records of the list that match a device
Matching(device) ==
  {j \in Conditionals :
     SameDevice(config.conditionalRegistrationData[j], device)}

\* a device that lacks installationParam has exactly one matching conditional
\* record, and that record is complete; a device with installationParam is complete
Reconcilable(device) ==
  IF "installationParam" \in DOMAIN device
  THEN Complete(device)
  ELSE /\ Cardinality(Matching(device)) = 1
       /\ \A j \in Matching(device) :
            /\ Complete(config.conditionalRegistrationData[j])
            /\ "cbsdCategory" \in DOMAIN config.conditionalRegistrationData[j]

\* C5 (as claimed): when every device lacking installationParam has a unique,
\* complete matching conditional record, reconcile succeeds, whatever other
\* conditional records the list holds and wherever the matching one sits.
C5_UniqueMatchReconciles ==
  [][(pc = "reconcile"
      /\ \A i \in Devices : Reconcilable(config.registrationRequests[i]))
     => reconciled'.err = "none"]_vars

\* C6: when the error check reads a status with the error flag, the poller
\* ends by a failed assertion in that check and returns no identifier; it
\* returns the identifier only after the loop read completed and the check
\* read no error flag.
C6_ErrorFlagRaises ==
  /\ (checkStatus # NoStatus /\ checkStatus.withError) =>
       (pc = "failed" /\ failedAt \in PollerPcs /\ pollerReturn = NotYet)
  /\ pollerReturn # NotYet =>
       (loopStatus # NoStatus /\ loopStatus.completed
        /\ checkStatus # NoStatus /\ ~checkStatus.withError
        /\ pollerReturn = ppa_id)

C6_Witness ==
  /\ loopStatus.completed /\ checkStatus.withError
  /\ outcome = "AssertionFailure" /\ failedAt = "check"
  /\ pollerReturn = NotYet

\* C7: a timeout is raised only when DEADLINE seconds have elapsed and no
\* status read so far was completed; the poller never runs past the armed
\* deadline; and a poller in its loop ends it: by the timeout, unless a status
\* it reads is completed or a status query raises.
C7_TimeoutAtDeadline ==
  /\ [](outcome = "Timeout" =>
          (now >= DEADLINE /\ ~loopStatus.completed /\ pollerReturn = NotYet))
  /\ []((pc \in PollerPcs /\ alarm.armed) => now <= alarm.at)
  /\ (pc \in {"poll", "sleep"}) ~>
       (outcome = "Timeout" \/ loopStatus.completed \/ outcome = "QueryError")

C7_Witness ==
  /\ outcome = "Timeout"
  /\ now = DEADLINE
  /\ queries = DEADLINE \div SLEEP
  /\ ~loopStatus.completed

\* C8: the poller returns only the identifier TriggerPpaCreation answered,
\* without an exception, after the k queries of the loop (the k-th, SLEEP
\* seconds after the one before, being the first read completed) and the query
\* of the error check; no status query follows the return; and once the loop
\* has read completed the poller returns, unless the error check reads the
\* error flag or raises.
C8_ReturnsIdentifierAfterKQueries ==
  /\ [](pollerReturn # NotYet =>
          /\ pollerReturn = ppa_id /\ ppa_id \in PpaIds
          /\ failedAt \notin {"trigger", "poll", "sleep", "check", "return"}
          /\ loopStatus.completed
          /\ queries = (now \div SLEEP) + 2)
  /\ [][pollerReturn # NotYet => queries' = queries]_vars
  /\ (pc = "check") ~>
       (pollerReturn = ppa_id \/ checkStatus.withError \/ outcome = "QueryError")

\* the status is first completed, without error, on the third query
C8_Witness ==
  /\ pollerReturn = "ppa1"
  /\ loopStatus = [completed |-> TRUE, withError |-> FALSE]
  /\ checkStatus = [completed |-> TRUE, withError |-> FALSE]
  /\ now = 2 * SLEEP
  /\ queries = 4
  /\ ~alarm.armed

\* C9: when TriggerPpaCreation answers None the poller fails at once: no
\* status query is made, the timer is never armed, nothing is returned.
C9_NullIdentifierFailsAtOnce ==
  ppa_id = None =>
    /\ outcome = "AssertionFailure" /\ failedAt = "trigger" /\ pc = "failed"
    /\ queries = 0 /\ "GetPpaCreationStatus" \notin called
    /\ alarm = Disarmed /\ ~strayAlarm
    /\ pollerReturn = NotYet

C9_Witness ==
  ppa_id = None /\ pc = "failed" /\ "TriggerPpaCreation" \in called

\* C10 (as claimed): no registration call, creation request or status poll
\* precedes reconciliation.
C10_ReconcileBeforeRegistration ==
  (called \cap {"assertRegistered", "TriggerPpaCreation",
                "GetPpaCreationStatus"} # {})
    => "assertRegConditionalsForPpaRefModel" \in called

\* C10 (amended): reconcile is invoked after registration, creation request,
\* status polling and zone retrieval, and before the reference model: the
\* reference model is computed only after reconcile has returned normally,
\* and a failure of reconcile fails the run.
C10_ReconcileBeforeReferenceModel ==
  /\ "assertRegConditionalsForPpaRefModel" \in called =>
       {"assertRegistered", "TriggerPpaCreation", "GetPpaCreationStatus",
        "getFullActivityDumpSasUut"} \subseteq called
  /\ "PpaCreationModel" \in called =>
       ("assertRegConditionalsForPpaRefModel" \in called
        /\ reconciled.err = "none")
  /\ reconciled.err \notin {"none", "notcalled"} =>
       (outcome = "AssertionFailure" /\ failedAt = "reconcile"
        /\ "PpaCreationModel" \notin called)

C10_Witness ==
  /\ "PpaCreationModel" \in called
  /\ "assertRegConditionalsForPpaRefModel" \in called
  /\ \E i \in Devices : config.registrationRequests[i].fccId = "F2"

\* C11: the creation request is submitted only after assertRegistered has
\* returned; the peer notification and the activity dump are requested only
\* after the poller has returned the identifier (completed read by the loop,
\* no error flag read by the check, timer disarmed), never after the poller
\* ended by an error, a timeout or a None identifier.
C11_RegistrationThenCreationThenRetrieval ==
  /\ "TriggerPpaCreation" \in called =>
       ("assertRegistered" \in called /\ failedAt # "register")
  /\ (called \cap {"InjectPeerSas", "getFullActivityDumpSasUut"} # {}) =>
       /\ pollerReturn = ppa_id /\ ppa_id \in PpaIds
       /\ loopStatus # NoStatus /\ loopStatus.completed
       /\ checkStatus # NoStatus /\ ~checkStatus.withError
       /\ ~alarm.armed
       /\ failedAt \notin {"trigger", "poll", "sleep", "check", "return"}
  /\ (outcome \in {"Timeout", "QueryError"}
      \/ failedAt \in {"trigger", "poll", "sleep", "check", "return"}) =>
       /\ pollerReturn = NotYet
       /\ called \cap {"InjectPeerSas", "getFullActivityDumpSasUut"} = {}
       /\ zones = <<>>

C11_Witness ==
  /\ "getFullActivityDumpSasUut" \in called
  /\ "InjectPeerSas" \in called
  /\ pollerReturn = "ppa1"
  /\ zoneData # NoZone


\* the required fields a conditional's installationParam lacks
MissingRequired(params) ==
  {name \in CONDITIONAL_PARAMS_REQUIRED : name \notin DOMAIN params}

\* the field names the text of an exception holds: the missing-parameter
\* message is formatted with the whole CONDITIONAL_PARAMS_REQUIRED tuple
NamedInMessage(err) ==
  IF err = "ConfigError: REG conditional parameter not found"
  THEN CONDITIONAL_PARAMS_REQUIRED
  ELSE {}

\* device i lacks installationParam, its only matching conditional record has
\* an installationParam that lacks a required field, and the devices ahead
\* of it are reconcilable
IncompleteMatch(i) ==
  LET device == config.registrationRequests[i] IN
  /\ "installationParam" \notin DOMAIN device
  /\ Cardinality(Matching(device)) = 1
  /\ \A j \in Matching(device) :
       /\ "installationParam" \in DOMAIN config.conditionalRegistrationData[j]
       /\ AnyRequiredMissing(config.conditionalRegistrationData[j].installationParam)
  /\ \A k \in 1..(i - 1) : Reconcilable(config.registrationRequests[k])

\* C12 (as claimed): for a device lacking installationParam whose matching
\* conditional record lacks a required field, reconcile fails with the
\* configuration error that names the missing field, and the device is left
\* without installationParam.
C12_MissingFieldIsConfigError ==
  [][(pc = "reconcile")
     => \A i \in Devices : IncompleteMatch(i) =>
          /\ reconciled'.err = "ConfigError: REG conditional parameter not found"
          /\ \A j \in Matching(config.registrationRequests[i]) :
               MissingRequired(config.conditionalRegistrationData[j].installationParam)
                 \subseteq NamedInMessage(reconciled'.err)
          /\ "installationParam" \notin DOMAIN reconciled'.devs[i]]_vars

\* device i lacked installationParam before the call and has exactly one
\* matching conditional record
LackedWithMatch(i) ==
  /\ "installationParam" \notin DOMAIN config.registrationRequests[i]
  /\ Cardinality(Matching(config.registrationRequests[i])) = 1

\* C13: after a successful reconcile of a device that lacked installationParam,
\* the device's installationParam holds exactly the seven required fields with
\* the values of the matching record, its cbsdCategory is the record's, it has
\* no other new field (airInterface, measCapability and eirpCapability are
\* not copied) and every field it had before is unchanged.
C13_ExactlySevenFieldsCopied ==
  [][(pc = "reconcile" /\ reconciled'.err = "none")
     => \A i \in Devices : LackedWithMatch(i) =>
          \A j \in Matching(config.registrationRequests[i]) :
            LET old == config.registrationRequests[i]
                new == reconciled'.devs[i]
                record == config.conditionalRegistrationData[j]
            IN /\ new = config'.registrationRequests[i]
               /\ DOMAIN new.installationParam = CONDITIONAL_PARAMS_REQUIRED
               /\ \A name \in CONDITIONAL_PARAMS_REQUIRED :
                    new.installationParam[name] = record.installationParam[name]
               /\ new.cbsdCategory = record.cbsdCategory
               /\ DOMAIN new = DOMAIN old \cup {"installationParam", "cbsdCategory"}
               /\ \A f \in DOMAIN old \ {"cbsdCategory"} : new[f] = old[f]]_vars

\* reconcile has succeeded on a list holding device_b, which now carries the
\* seven fields of conditionals_b (and no eirpCapability) and its category
C13_Witness ==
  /\ reconciled.err = "none" /\ calls >= 1
  /\ \E i \in DOMAIN reconciled.devs :
       /\ reconciled.devs[i].fccId = "F2"
       /\ DOMAIN reconciled.devs[i] =
            {"fccId", "cbsdSerialNumber", "userId", "installationParam", "cbsdCategory"}
       /\ reconciled.devs[i].installationParam = InstallParams(InstallationParam(2))
       /\ "eirpCapability" \notin DOMAIN reconciled.devs[i].installationParam
       /\ reconciled.devs[i].cbsdCategory = "B"

\* C14: a second call of reconcile on the lists a first, successful call left
\* behind succeeds too and changes no device request; and no call, failing
\* or not, modifies a device that carries a complete inline installationParam.
C14_ReconcileIdempotent ==
  [][(pc = "reconcile")
     => /\ (calls >= 1 /\ reconciled.err = "none")
             => (reconciled'.err = "none" /\ config' = config
                 /\ reconciled'.devs = config.registrationRequests)
        /\ \A i \in Devices :
             Complete(config.registrationRequests[i])
               => /\ config'.registrationRequests[i] = config.registrationRequests[i]
                  /\ reconciled'.devs[i] = config.registrationRequests[i]]_vars

\* the second call has returned normally on the default lists, where the
\* first call succeeded and reconciled device_b
C14_Witness ==
  /\ calls = 2 /\ reconciled.err = "none" /\ pc = "refModel"
  /\ config.conditionalRegistrationData = <<conditionals_b>>
  /\ config.registrationRequests =
       <<device_a,
         Update(Update(device_b, "installationParam",
                       InstallParams(InstallationParam(2))), "cbsdCategory", "B")>>

\* C15: no call of reconcile, succeeding or failing, changes a conditional
\* record, and the installationParam installed on a device is a new object:
\* a later write to the device's installationParam leaves the conditional
\* records as they were.
C15_ConditionalsNeverMutated ==
  [][config'.conditionalRegistrationData = config.conditionalRegistrationData]_vars

\* device_b was reconciled from conditionals_b, its antennaGain was changed
\* afterwards, and conditionals_b still holds its own antennaGain
C15_Witness ==
  /\ reconciled.err = "none"
  /\ config.conditionalRegistrationData = <<conditionals_b>>
  /\ \E i \in Devices :
       /\ config.registrationRequests[i].fccId = "F2"
       /\ Complete(config.registrationRequests[i])
       /\ config.registrationRequests[i].installationParam.antennaGain = 0
       /\ config.conditionalRegistrationData[1].installationParam.antennaGain = 16

\* C16: a run whose earlier steps all succeeded passes if and only if
\* isPpaWithinServiceArea on the UUT zone and PolygonsAlmostEqual on the
\* reference and UUT zones are both true; a false result of either fails the
\* run in that step, and no run passes unless both were evaluated.
C16_PassIffBothChecksTrue ==
  /\ outcome = "passed" <=>
       (checks.within = "True" /\ checks.almostEqual = "True")
  /\ checks.within = "False" =>
       /\ outcome = "AssertionFailure" /\ failedAt = "within"
       /\ checks.almostEqual = NotYet
  /\ checks.almostEqual = "False" =>
       /\ outcome = "AssertionFailure" /\ failedAt = "almostEqual"
       /\ checks.within = "True"
  /\ checks.within # NotYet =>
       /\ checks.within = Bool(isPpaWithinServiceArea(geo.tracts, geo.uut))
       /\ {"Reset", "InjectPalDatabaseRecord", "assertRegistered",
           "getFullActivityDumpSasUut", "PpaCreationModel"} \subseteq called
       /\ pollerReturn # NotYet /\ zoneData # NoZone /\ reconciled.err = "none"

\* a run has passed with both checks evaluated and true
C16_Witness ==
  /\ outcome = "passed" /\ pc = "passed"
  /\ checks.within = "True" /\ checks.almostEqual = "True"
  /\ geo.uut = 2..9 /\ geo.ref = 2..9

\* the service area of the run: the union of the census tracts of the PAL records
ServiceArea == cascaded_union(geo.tracts)

\* C17 (as claimed): isPpaWithinServiceArea is true for a polygon that lies
\* inside the service area by more than the buffer distance, true for a
\* polygon inside the service area that touches its boundary, and false for
\* a polygon with any point outside the service area.
C17_WithinServiceAreaThreeCases ==
  checks.within # NotYet =>
    /\ buffer(geo.uut, BUFFER + 1) \subseteq ServiceArea => checks.within = "True"
    /\ geo.uut \subseteq ServiceArea => checks.within = "True"
    /\ geo.uut \ ServiceArea # {} => checks.within = "False"

\* C18: the area check of the run is true if and only if the area of the
\* union minus the intersection of the reference-model polygon and the UUT
\* polygon is at most 10% of the area of the reference-model polygon.
C18_AreaCheckTenPercentOfReference ==
  checks.almostEqual # NotYet =>
    (checks.almostEqual = "True" <=>
       100 * (Cardinality(geo.ref \cup geo.uut) - Cardinality(geo.ref \cap geo.uut))
         <= 10 * Cardinality(geo.ref))

\* the check was false on a reference polygon of nine cells and a UUT polygon
\* of ten that differ by one cell: more than 10% of nine, not of ten
C18_Witness ==
  /\ checks.almostEqual = "False" /\ failedAt = "almostEqual"
  /\ geo.ref = 1..9 /\ geo.uut = 1..10

\* C20 (as claimed): the response in which the loop read completed is the
\* one the error decision is taken from: when the poller has returned the
\* identifier that response had no error flag, and when that response had
\* the error flag the call has ended by an exception and returned nothing.
C20_OneResponseDecidesBoth ==
  /\ pollerReturn # NotYet =>
       (loopStatus.completed /\ ~loopStatus.withError)
  /\ (PollerExited /\ loopStatus.completed /\ loopStatus.withError) =>
       (pc = "failed" /\ failedAt \in PollerPcs /\ pollerReturn = NotYet)

\* C19 (as claimed): of two runs polling concurrently each has its own
\* deadline: a run that is still polling has not passed its own deadline, a
\* run ended by the timeout was ended at its own deadline and not at the
\* other run's, and no run fails to set its timer because of the other.
C19_IndependentDeadlines ==
  \A r \in Runs :
    /\ runs[r].pc = "poll" => now <= runs[r].deadline
    /\ runs[r].pc = "Timeout" => runs[r].endedAt = runs[r].deadline
    /\ runs[r].pc # "ValueError"

\* the device at which the call fails: the first one whose turn in the
\* device loop ends by an exception (0 when the call succeeds)
FailingDevice ==
  LET failing == {i \in Devices :
                    ReconcileDevice(config.registrationRequests[i],
                                    config.conditionalRegistrationData).err # "none"}
  IN IF failing = {} THEN 0
     ELSE CHOOSE i \in failing : \A k \in failing : i <= k

\* the first conditional record passes every check of the inner loop for the
\* device: the copy of lines 237-253 is made before any exception
FirstRecordCopied(device) ==
  /\ "installationParam" \notin DOMAIN device
  /\ Conditionals # {}
  /\ "installationParam" \in DOMAIN config.conditionalRegistrationData[1]
  /\ SameDevice(config.conditionalRegistrationData[1], device)
  /\ Complete(config.conditionalRegistrationData[1])

\* C21 (as claimed): when a call of reconcile fails, no device request of the
\* list has been modified by the call.
C21_AllOrNothingOnFailure ==
  [][(pc = "reconcile" /\ reconciled'.err # "none")
     => /\ reconciled'.devs = config.registrationRequests
        /\ config'.registrationRequests = config.registrationRequests]_vars

\* C21 (amended): a failing call of reconcile works in place and stops at the
\* failing device.  The devices behind it are untouched; the devices ahead
\* of it are left as their turn in the loop reconciled them; the failing
\* device is modified exactly when the first conditional record passed the
\* checks for it and was copied before the exception; and no device loses
\* or changes a field it had, save cbsdCategory.
C21_FailureStopsInPlace ==
  [][(pc = "reconcile" /\ reconciled'.err # "none")
     => LET old == config.registrationRequests
            new == reconciled'.devs
            cond == config.conditionalRegistrationData
        IN /\ FailingDevice \in Devices
           /\ config'.registrationRequests = new
           /\ Len(new) = Len(old)
           /\ \A i \in Devices :
                /\ i > FailingDevice => new[i] = old[i]
                /\ i < FailingDevice =>
                     /\ new[i] = ReconcileDevice(old[i], cond).device
                     /\ (Conditionals # {} => Complete(new[i]))
                /\ i = FailingDevice =>
                     /\ new[i] # old[i] <=> FirstRecordCopied(old[i])
                     /\ FirstRecordCopied(old[i]) =>
                          new[i].installationParam =
                            InstallParams(cond[1].installationParam)
                /\ \A f \in DOMAIN old[i] \ {"cbsdCategory"} :
                     f \in DOMAIN new[i] /\ new[i][f] = old[i][f]]_vars

\* a first call has failed at device_a_incomplete after device_b, ahead of
\* it in the list, was given the seven fields of conditionals_b
C21_Witness ==
  /\ calls = 1 /\ pc = "failed"
  /\ reconciled.err = "ConfigError: REG conditional parameter not found"
  /\ config.conditionalRegistrationData = <<conditionals_b>>
  /\ reconciled.devs =
       <<Update(Update(device_b, "installationParam",
                       InstallParams(InstallationParam(2))), "cbsdCategory", "B"),
         device_a_incomplete>>

=============================================================================
